---- MODULE Spec2Model ----
(***************************************************************************)
(* Model of the segmented append-only key-value store of                   *)
(* src/datastore/db.go (first variant of the file, lines 1-510).           *)
(*                                                                         *)
(* Keys, values and file contents are byte sequences.  The file system is  *)
(* modelled with inodes (files), directory entries (dir) and open file     *)
(* objects (fds, each with its own read/write offset), because rotation    *)
(* renames a file while keeping its *os.File and compaction scans files    *)
(* through their current offset.  Segment structs live in heap, because a  *)
(* reader keeps a pointer to the struct (and its mutex) it resolved.       *)
(***************************************************************************)
EXTENDS Integers, Sequences, FiniteSets, TLC

(* ------------------------------ bounds -------------------------------- *)
\* number of Put calls in one behaviour of the sequential specification
MaxPuts == 3
\* number of concurrent workers of the concurrent specification
NumWorkers == 3
\* number of merges of the compactor that find two or more frozen segments
MaxMerges == 2

\* keys and values the callers use (byte strings, the empty one included)
Keys == {<<>>, <<1>>, <<2>>}
Values == {<<>>, <<1>>}
\* longest key and value given to the codec byte by byte
MaxLen == 2
\* values of the SEG_MAX environment variable; 0 stands for "not set"
SegMaxValues == {0, 10}

(* ------------------------- program constants -------------------------- *)
defaultMaxBytes == 10 * 1024 * 1024
\* segID / id of the active segment
activeID == -1
\* file names: segment-N.data is N, current-data is activeName,
\* merge-tmp-<nanos>.data is tmpName
activeName == -1
tmpName == -2
\* a merge-tmp file that a failed merge left behind; its name carries the
\* nanosecond clock, so no later merge opens it again
staleName == -3
SegPath(id) == id
\* capacity of writeCh
writeChCap == 100

(* ------------------------------ helpers ------------------------------- *)
Last(s) == s[Len(s)]
Drop(s, n) == SubSeq(s, n + 1, Len(s))
Take(s, n) == SubSeq(s, 1, n)
Remove(f, x) == [y \in (DOMAIN f) \ {x} |-> f[y]]
MinOf(S) == CHOOSE x \in S : \A y \in S : x <= y
MaxOf(S) == CHOOSE x \in S : \A y \in S : y <= x
\* [x \in {e} |-> body] applied to the value of e: a LET whose definition
\* is evaluated once, however often the body uses it
Let(f) == CHOOSE y \in {g[CHOOSE x \in DOMAIN g : TRUE] : g \in {f}} : TRUE

RECURSIVE SortInts(_)
\* sort.Ints over the ids found in the directory
SortInts(S) == IF S = {} THEN <<>> ELSE <<MinOf(S)>> \o SortInts(S \ {MinOf(S)})

(* ------------------------------- codec -------------------------------- *)
\* A uint32 is kept as two 16-bit halves [hi, lo], so that the sums of the
\* decoders wrap at 2^32 as they do in the program.
Half == 65536
U32(n) == [hi |-> (n \div Half) % Half, lo |-> n % Half]
Add32(a, b) ==
    [lo |-> (a.lo + b.lo) % Half,
     hi |-> (a.hi + b.hi + ((a.lo + b.lo) \div Half)) % Half]
\* int(u) for a u below 2^31
ToInt(u) == u.hi * Half + u.lo
\* int(u) > n and int(u) < n, for an n below 2^16
Gt32(u, n) == u.hi > 0 \/ u.lo > n
Lt32(u, n) == u.hi = 0 /\ u.lo < n

\* binary.LittleEndian.PutUint32
PutUint32(u) == << u.lo % 256, u.lo \div 256, u.hi % 256, u.hi \div 256 >>
\* binary.LittleEndian.Uint32
Uint32(b) == [hi |-> b[3] + b[4] * 256, lo |-> b[1] + b[2] * 256]

\* entry.Encode
Encode(k, v) == PutUint32(U32(Len(k))) \o PutUint32(U32(Len(v))) \o k \o v

\* entry.Decode: the length check adds in uint32 and the slice bounds are
\* computed in uint32 too
Decode(data) ==
    IF Len(data) < 8
    THEN [err |-> "short", key |-> <<>>, value |-> <<>>]
    ELSE LET kl == Uint32(SubSeq(data, 1, 4))
             vl == Uint32(SubSeq(data, 5, 8))
             kend == Add32(U32(8), kl)
             sum == Add32(kend, vl)
         IN  IF Gt32(sum, Len(data))
             THEN [err |-> "short", key |-> <<>>, value |-> <<>>]
             ELSE IF Lt32(kend, 8) \/ Gt32(kend, ToInt(sum))
                  THEN [err |-> "panic", key |-> <<>>, value |-> <<>>]
                  ELSE [err |-> "nil",
                        key |-> SubSeq(data, 9, ToInt(kend)),
                        value |-> SubSeq(data, ToInt(kend) + 1, ToInt(sum))]

\* entry.DecodeFromReader over the bytes that remain in the stream.
\* io.ReadFull returns io.EOF when it read no byte at all and
\* io.ErrUnexpectedEOF when it read some but not all; with an empty
\* buffer it reads nothing and succeeds.
DecodeFromReader(stream) ==
    IF Len(stream) = 0
    THEN [err |-> "EOF", n |-> 0, key |-> <<>>, value |-> <<>>]
    ELSE IF Len(stream) < 8
    THEN [err |-> "ErrUnexpectedEOF", n |-> 0, key |-> <<>>, value |-> <<>>]
    ELSE LET kl == Uint32(SubSeq(stream, 1, 4))
             vl == Uint32(SubSeq(stream, 5, 8))
             bl == Add32(kl, vl)
             rest == Len(stream) - 8
         IN  IF Gt32(bl, 0) /\ rest = 0
             THEN [err |-> "EOF", n |-> 0, key |-> <<>>, value |-> <<>>]
             ELSE IF Gt32(bl, rest)
             THEN [err |-> "ErrUnexpectedEOF", n |-> 0, key |-> <<>>, value |-> <<>>]
             ELSE IF Gt32(kl, ToInt(bl))
             THEN [err |-> "panic", n |-> 0, key |-> <<>>, value |-> <<>>]
             ELSE [err |-> "nil", n |-> 8 + ToInt(kl) + ToInt(vl),
                   key |-> SubSeq(stream, 9, 8 + ToInt(kl)),
                   value |-> SubSeq(stream, 9 + ToInt(kl), 8 + ToInt(bl))]

(* ------------------- the codec on lengths alone ----------------------- *)
\* Records too long to enumerate byte by byte: a string is given by its
\* length, an int (64 bits) kept as [hi, lo] like a uint32 but with hi unbounded,
\* and a decoded field by the bounds [from, to) of the slice it is taken
\* from.
Int64(n) == [hi |-> n \div Half, lo |-> n % Half]
AddInt(a, b) ==
    [lo |-> (a.lo + b.lo) % Half, hi |-> a.hi + b.hi + ((a.lo + b.lo) \div Half)]
LtInt(a, b) == a.hi < b.hi \/ (a.hi = b.hi /\ a.lo < b.lo)
\* uint32(n)
Wrap32(n) == [hi |-> n.hi % Half, lo |-> n.lo]

\* entry.Encode for a key of kl and a value of vl bytes: the length of buf,
\* the two header fields, and where the key and the value are copied to
EncodeLens(kl, vl) ==
    [len |-> AddInt(AddInt(Int64(8), kl), vl),
     kl |-> Wrap32(kl), vl |-> Wrap32(vl),
     key |-> [from |-> Int64(8), to |-> AddInt(Int64(8), kl)],
     value |-> [from |-> AddInt(Int64(8), kl),
                to |-> AddInt(AddInt(Int64(8), kl), vl)]]

NoSlice == [from |-> Int64(0), to |-> Int64(0)]

\* entry.Decode on a buffer of len bytes whose header holds kl and vl
DecodeLens(len, kl, vl) ==
    IF LtInt(len, Int64(8))
    THEN [err |-> "short", key |-> NoSlice, value |-> NoSlice]
    ELSE LET kend == Add32(U32(8), kl)
             sum == Add32(kend, vl)
         IN  IF LtInt(len, sum)
             THEN [err |-> "short", key |-> NoSlice, value |-> NoSlice]
             ELSE IF LtInt(kend, Int64(8)) \/ LtInt(sum, kend)
                  THEN [err |-> "panic", key |-> NoSlice, value |-> NoSlice]
                  ELSE [err |-> "nil", key |-> [from |-> Int64(8), to |-> kend],
                        value |-> [from |-> kend, to |-> sum]]

\* entry.DecodeFromReader on a stream of len bytes whose header holds kl
\* and vl; the slices are given as positions in the stream
DecodeFromReaderLens(len, kl, vl) ==
    IF len = Int64(0)
    THEN [err |-> "EOF", n |-> Int64(0), key |-> NoSlice, value |-> NoSlice]
    ELSE IF LtInt(len, Int64(8))
    THEN [err |-> "ErrUnexpectedEOF", n |-> Int64(0), key |-> NoSlice,
          value |-> NoSlice]
    ELSE LET bl == Add32(kl, vl)
         IN  IF bl # Int64(0) /\ len = Int64(8)
             THEN [err |-> "EOF", n |-> Int64(0), key |-> NoSlice,
                   value |-> NoSlice]
             ELSE IF LtInt(len, AddInt(Int64(8), bl))
             THEN [err |-> "ErrUnexpectedEOF", n |-> Int64(0), key |-> NoSlice,
                   value |-> NoSlice]
             ELSE IF LtInt(bl, kl)
             THEN [err |-> "panic", n |-> Int64(0), key |-> NoSlice,
                   value |-> NoSlice]
             ELSE [err |-> "nil", n |-> AddInt(AddInt(Int64(8), kl), vl),
                   key |-> [from |-> Int64(8), to |-> AddInt(Int64(8), kl)],
                   value |-> [from |-> AddInt(Int64(8), kl),
                              to |-> AddInt(Int64(8), bl)]]

(* ------------------------------- state -------------------------------- *)
VARIABLES
    files,          \* inode -> content (byte sequence)
    dir,            \* file name -> inode: the data directory
    fds,            \* *os.File objects: [ino, pos, closed]
    heap,           \* segment structs: [file, id, size, path, readers]
    segments,       \* db.segments: sequence of heap references
    active,         \* db.active: heap reference
    index,          \* db.index: key -> [segID, offset]
    MaxSegmentSize, \* package variable MaxSegmentSize
    env,            \* SEG_MAX in the environment (0: not set)
    dbState,        \* "open", "hung" (Close blocked in wg.Wait), "closed"
    lastOp,         \* last API call and its result
    \* processes of the concurrent specification
    writeCh,        \* db.writeCh: queued writeRequests
    writerPc,       \* writer goroutine: "select", "respond"
    writerReq,      \* request the writer is executing, with its error
    wpc,            \* worker -> position in its Put / Get
    wsel,           \* worker -> what Get resolved: [s, offset]
    wres,           \* worker -> result of its Get
    mu,             \* holder of db.mu in exclusive mode ("none" if free)
    cpc,            \* compactor goroutine: position inside merge
    mrg,            \* locals of the running merge
    \* history variables
    lastPut,        \* key -> value of its last successful Put
    putCount,       \* key -> number of successful Puts
    nPuts,          \* Put calls so far
    merges,         \* merges that did work (>= 2 frozen segments)
    idHist,         \* ids given to frozen segments: [id, by, clobber]
    mergeIn         \* records of the inputs of the last merge, per segment

storeVars == <<files, dir, fds, heap, segments, active, index, MaxSegmentSize>>
procVars == <<writeCh, writerPc, writerReq, wpc, wsel, wres, mu, cpc, mrg>>
histVars == <<lastPut, putCount, nPuts, merges, idHist, mergeIn>>
vars == <<storeVars, env, dbState, lastOp, procVars, histVars>>

\* the store as one value, for the operators below
St == [files |-> files, dir |-> dir, fds |-> fds, heap |-> heap,
       segments |-> segments, active |-> active, index |-> index,
       mss |-> MaxSegmentSize, err |-> "nil"]

Commit(st) ==
    /\ files' = st.files
    /\ dir' = st.dir
    /\ fds' = st.fds
    /\ heap' = st.heap
    /\ segments' = st.segments
    /\ active' = st.active
    /\ index' = st.index
    /\ MaxSegmentSize' = st.mss

StoreIs(st) ==
    /\ files = st.files
    /\ dir = st.dir
    /\ fds = st.fds
    /\ heap = st.heap
    /\ segments = st.segments
    /\ active = st.active
    /\ index = st.index
    /\ MaxSegmentSize = st.mss

(* ---------------------------- file system ----------------------------- *)
\* os.OpenFile(name, O_CREATE|...): the inode behind name, created empty
\* when the name does not exist; a new file object at offset 0
OpenFile(st, name) ==
    LET exists == name \in DOMAIN st.dir
        ino == IF exists THEN st.dir[name] ELSE Len(st.files) + 1
        st1 == IF exists THEN st
               ELSE [st EXCEPT !.files = Append(@, <<>>),
                               !.dir = (name :> ino) @@ @]
    IN  [st1 EXCEPT !.fds = Append(@, [ino |-> ino, pos |-> 0, closed |-> FALSE])]

\* os.Open(name): read-only, fails when the name does not exist
OpenRead(st, name) ==
    IF name \in DOMAIN st.dir THEN OpenFile(st, name)
    ELSE [st EXCEPT !.err = "ENOENT"]

\* the file object OpenFile has just returned
NewFd(st) == Len(st.fds)

\* f.Stat().Size()
FileSize(st, fd) == Len(st.files[st.fds[fd].ino])

\* (*os.File).Write on a file opened with O_APPEND: the data goes to the end
\* of the file and the offset of the file object ends up there
WriteAppend(st, fd, data) ==
    LET ino == st.fds[fd].ino
    IN  [st EXCEPT !.files[ino] = @ \o data,
                   !.fds[fd].pos = Len(st.files[ino]) + Len(data)]

\* (*os.File).Write on a file opened without O_APPEND: at the offset
WriteAt(st, fd, data) ==
    LET ino == st.fds[fd].ino
        pos == st.fds[fd].pos
        old == st.files[ino]
    IN  [st EXCEPT !.files[ino] = Take(old, pos) \o data
                                    \o Drop(old, IF pos + Len(data) > Len(old)
                                                 THEN Len(old) ELSE pos + Len(data)),
                   !.fds[fd].pos = pos + Len(data)]

\* os.Rename
Rename(st, from, to) ==
    [st EXCEPT !.dir = (to :> st.dir[from]) @@ Remove(@, from)]

\* os.Remove
Unlink(st, name) == [st EXCEPT !.dir = Remove(@, name)]

\* (*os.File).Close
CloseFd(st, fd) == [st EXCEPT !.fds[fd].closed = TRUE]

\* (*os.File).ReadAt(buf of n bytes, off): an error on a closed file and
\* when fewer than n bytes are there; n = 0 reads nothing and succeeds
ReadAt(st, fd, off, n) ==
    LET content == st.files[st.fds[fd].ino]
    IN  IF st.fds[fd].closed
        THEN [err |-> "closed", data |-> <<>>]
        ELSE IF n = 0
        THEN [err |-> "nil", data |-> <<>>]
        ELSE IF off + n > Len(content)
        THEN [err |-> "EOF", data |-> <<>>]
        ELSE [err |-> "nil", data |-> SubSeq(content, off + 1, off + n)]

\* what a bufio.Reader on the file object has left to read: the bytes from
\* the object's current offset on
Stream(st, fd) == Drop(st.files[st.fds[fd].ino], st.fds[fd].pos)

\* a sequential read to the end of the file leaves the offset at the end
AtEnd(st, fd) == [st EXCEPT !.fds[fd].pos = Len(st.files[st.fds[fd].ino])]

(* ------------------------------ recovery ------------------------------ *)
EmptyIndex == [k \in {} |-> 0]

RECURSIVE ScanLoop(_, _, _, _)
\* the loop of scanSegment: every decoded record is indexed at the running
\* offset, which starts at 0; io.EOF ends the loop normally
ScanLoop(stream, offset, id, idx) ==
    Let([d \in {DecodeFromReader(stream)} |->
        IF d.err = "EOF" THEN [err |-> "nil", index |-> idx]
        ELSE IF d.err # "nil" THEN [err |-> d.err, index |-> idx]
        ELSE Let([rest \in {Drop(stream, d.n)} |->
             Let([idx1 \in {(d.key :> [segID |-> id, offset |-> offset]) @@ idx} |->
                  ScanLoop(rest, offset + d.n, id, idx1)])])])

\* DB.scanSegment: reads through a bufio.Reader from wherever the offset of
\* s.file stands
scanSegment(st, s) ==
    LET fd == st.heap[s].file
    IN  IF st.fds[fd].closed
        THEN [st EXCEPT !.err = "closed"]
        ELSE Let([r \in {ScanLoop(Stream(st, fd), 0, st.heap[s].id, st.index)} |->
                  [AtEnd(st, fd) EXCEPT !.index = r.index,
                                                  !.err = r.err]])

\* a new segment struct
NewSegment(st, fd, id, size, path) ==
    [st EXCEPT !.heap = Append(@, [file |-> fd, id |-> id, size |-> size,
                                   path |-> path, readers |-> 0])]

RECURSIVE LoadFrozen(_, _)
\* the second loop of loadSegments: open every segment file, ascending
LoadFrozen(st, ids) ==
    IF ids = <<>> THEN st
    ELSE Let([st1 \in {OpenRead(st, SegPath(Head(ids)))} |->
         Let([st2 \in {NewSegment(st1, NewFd(st1), Head(ids),
                        FileSize(st1, NewFd(st1)), SegPath(Head(ids)))} |->
             
         Let([st3 \in {[st2 EXCEPT !.segments = Append(@, Len(st2.heap))]} |->
             LoadFrozen(st3, Tail(ids))])])])

\* DB.loadSegments
loadSegments(st) ==
    Let([ids \in {SortInts({n \in DOMAIN st.dir : n >= 0})} |->
    Let([st1 \in {LoadFrozen(st, ids)} |->
    Let([st2 \in {OpenFile(st1, activeName)} |->
    Let([st3 \in {NewSegment(st2, NewFd(st2), activeID, FileSize(st2, NewFd(st2)),
                   activeName)} |->
        [st3 EXCEPT !.active = Len(st3.heap)]])])])])

\* the order in which recover scans: append(db.segments, db.active)
RecoverOrderBad(st) == <<st.active>> \o st.segments
RecoverOrder(st) == st.segments \o <<st.active>>

RECURSIVE ScanAll(_, _)
ScanAll(st, ss) ==
    IF ss = <<>> \/ st.err # "nil" THEN st
    ELSE Let([st1 \in {scanSegment(st, Head(ss))} |-> ScanAll(st1, Tail(ss))])

\* DB.recover
recover(st) == Let([ss \in {RecoverOrder(st)} |-> ScanAll(st, ss)])

\* Open: a new DB over the directory; the objects of an earlier DB are gone
OpenDB(st) ==
    Let([db \in {[st EXCEPT !.fds = <<>>, !.heap = <<>>, !.segments = <<>>,
                   !.active = 0, !.index = EmptyIndex, !.err = "nil"]} |->
         Let([st1 \in {loadSegments(db)} |-> recover(st1)])])

(* ------------------------------- writer ------------------------------- *)
\* rotateActive, "Determine next segment ID"
NextIDByCount(st) == Len(st.segments)
NextID(st) ==
    IF Len(st.segments) > 0 THEN st.heap[Last(st.segments)].id + 1 ELSE 0

\* rotateActive, "Update index"
RotateIndexStale(idx, nextID) == idx
RotateIndexAll(idx, nextID) ==
    [k \in DOMAIN idx |-> [idx[k] EXCEPT !.segID = nextID]]
RotateIndex(idx, nextID) ==
    [k \in DOMAIN idx |->
        IF idx[k].segID = activeID THEN [idx[k] EXCEPT !.segID = nextID]
        ELSE idx[k]]

\* DB.rotateActive
rotateActive(st) ==
    LET nextID == NextID(st)
        a == st.heap[st.active]
    IN  Let([st1 \in {Rename(st, a.path, SegPath(nextID))} |->
        Let([st2 \in {NewSegment(st1, a.file, nextID, a.size, SegPath(nextID))} |->
            
        Let([st3 \in {[st2 EXCEPT !.segments = Append(@, Len(st2.heap)),
                        !.index = RotateIndex(@, nextID)]} |->
        Let([st4 \in {OpenFile(st3, activeName)} |->
        Let([st5 \in {NewSegment(st4, NewFd(st4), activeID, 0, activeName)} |->
            [st5 EXCEPT !.active = Len(st5.heap)]])])])])])

\* doPut, "Check segment size"
NeedsRotationAbove(size, mss) == size > mss
NeedsRotation(size, mss) == size >= mss

\* a doPut that rotates before it writes
doPutRotateFirst(st, e, key, value) ==
    Let([st0 \in {IF e > 0 THEN [st EXCEPT !.mss = e] ELSE st} |->
    Let([data \in {Encode(key, value)} |->
    Let([st1 \in {IF NeedsRotation(st0.heap[st0.active].size + Len(data), st0.mss)
        THEN rotateActive(st0) ELSE st0} |->
    Let([offset \in {st1.heap[st1.active].size} |->
    Let([st2 \in {WriteAppend(st1, st1.heap[st1.active].file, data)} |->
        [st2 EXCEPT !.heap[st1.active].size = @ + Len(data),
                    !.index = (key :> [segID |-> activeID,
                                       offset |-> offset]) @@ @]])])])])])

\* DB.doPut; e is SEG_MAX in the environment
doPut(st, e, key, value) ==
    Let([st0 \in {IF e > 0 THEN [st EXCEPT !.mss = e] ELSE st} |->
    Let([data \in {Encode(key, value)} |->
    Let([offset \in {st0.heap[st0.active].size} |->
    Let([st1 \in {WriteAppend(st0, st0.heap[st0.active].file, data)} |->
    Let([st2 \in {[st1 EXCEPT !.heap[st0.active].size = @ + Len(data),
                    !.index = (key :> [segID |-> activeID,
                                       offset |-> offset]) @@ @]} |->
        IF NeedsRotation(st2.heap[st2.active].size, st2.mss)
        THEN rotateActive(st2)
        ELSE st2])])])])])

(* ------------------------------- reader ------------------------------- *)
\* DB.segIdx, as a 1-based position in db.segments; 0 when there is none
segIdx(st, id) ==
    LET hits == {i \in 1..Len(st.segments) : st.heap[st.segments[i]].id = id}
    IN  IF hits = {} THEN 0 ELSE MinOf(hits)

NoValue == <<>>

\* DB.Get up to db.mu.RUnlock(): the index lookup and the segment chosen
GetResolve(st, key) ==
    IF key \notin DOMAIN st.index
    THEN [done |-> TRUE, err |-> "NotFound", s |-> 0, offset |-> 0]
    ELSE LET pos == st.index[key]
         IN  IF pos.segID = activeID
             THEN [done |-> FALSE, err |-> "nil", s |-> st.active,
                   offset |-> pos.offset]
             ELSE IF segIdx(st, pos.segID) = 0
             THEN [done |-> TRUE, err |-> "invalid segment", s |-> 0, offset |-> 0]
             ELSE [done |-> FALSE, err |-> "nil",
                   s |-> st.segments[segIdx(st, pos.segID)],
                   offset |-> pos.offset]

\* DB.Get after db.mu.RUnlock(): the two positional reads and Decode
GetRead(st, s, offset) ==
    Let([fd \in {st.heap[s].file} |->
    Let([hdr \in {ReadAt(st, fd, offset, 8)} |->
        IF hdr.err # "nil" THEN [err |-> "read header", value |-> NoValue]
        ELSE
    Let([totalSize \in {Add32(Add32(U32(8), Uint32(SubSeq(hdr.data, 1, 4))),
              Uint32(SubSeq(hdr.data, 5, 8)))} |->
        IF Lt32(totalSize, 8) THEN [err |-> "panic", value |-> NoValue]
        ELSE IF totalSize.hi > 0 THEN [err |-> "read body", value |-> NoValue]
        ELSE
    Let([body \in {ReadAt(st, fd, offset + 8, ToInt(totalSize) - 8)} |->
        IF body.err # "nil" THEN [err |-> "read body", value |-> NoValue]
        ELSE
    Let([e \in {Decode(hdr.data \o body.data)} |->
        IF e.err # "nil" THEN [err |-> "decode", value |-> NoValue]
        ELSE [err |-> "nil", value |-> e.value]])])])])])

\* DB.Get with nothing running in between
Get(st, key) ==
    Let([r \in {GetResolve(st, key)} |->
        IF r.done THEN [err |-> r.err, value |-> NoValue]
        ELSE GetRead(st, r.s, r.offset)])

RECURSIVE SumSizes(_, _)
SumSizes(st, ss) ==
    IF ss = <<>> THEN 0 ELSE st.heap[Head(ss)].size + SumSizes(st, Tail(ss))

\* DB.Size
Size(st) == SumSizes(st, st.segments \o <<st.active>>)

(* ------------------------------ compactor ----------------------------- *)
RECURSIVE CopyLoop(_, _, _)
\* the loop of copyUnique: the first record met for a key is copied, the
\* key is marked as seen, and every later record for it is skipped
CopyLoop(stream, seen, out) ==
    Let([d \in {DecodeFromReader(stream)} |->
        IF d.err = "EOF" THEN [err |-> "nil", seen |-> seen, out |-> out]
        ELSE IF d.err # "nil" THEN [err |-> d.err, seen |-> seen, out |-> out]
        ELSE Let([rest \in {Drop(stream, d.n)} |->
             IF d.key \in seen THEN CopyLoop(rest, seen, out)
             ELSE Let([seen1 \in {seen \cup {d.key}} |->
                  Let([out1 \in {out \o Encode(d.key, d.value)} |->
                      CopyLoop(rest, seen1, out1)])])])])

\* DB.copyUnique: rewinds src.file, copies to dst; yields the store and seen
copyUnique(st, src, dst, seen) ==
    LET fd == st.heap[src].file
    IN  IF st.fds[fd].closed
        THEN [st |-> [st EXCEPT !.err = "closed"], seen |-> seen]
        ELSE Let([st1 \in {[st EXCEPT !.fds[fd].pos = 0]} |->
             Let([r \in {CopyLoop(Stream(st1, fd), seen, <<>>)} |->
             Let([st2 \in {AtEnd(st1, fd)} |->
                 [st |-> [WriteAt(st2, dst, r.out) EXCEPT !.err = r.err],
                  seen |-> r.seen]])])])

RECURSIVE MergeCopy(_, _, _, _)
\* merge, the walk over db.segments from the last to the first
MergeCopy(st, i, tf, seen) ==
    IF i = 0 \/ st.err # "nil" THEN st
    ELSE Let([r \in {copyUnique(st, st.segments[i], tf, seen)} |->
         Let([st1 \in {r.st} |-> MergeCopy(st1, i - 1, tf, r.seen)])])

\* merge, "Find max segment ID for merged segment"
MergedID(st) ==
    MaxOf({-1} \cup {st.heap[st.segments[i]].id : i \in 1..Len(st.segments)}) + 1

\* merge from the temporary file to the rename; m holds merge's locals
mergeBegin(st) ==
    Let([st1 \in {OpenFile(st, tmpName)} |->
    Let([tf \in {NewFd(st1)} |->
    Let([st2 \in {MergeCopy(st1, Len(st1.segments), tf, {})} |->
    Let([mergedID \in {MergedID(st)} |->
        [st |-> IF st2.err # "nil"
                THEN Let([st3 \in {CloseFd(st2, tf)} |->
                         Rename(st3, tmpName, staleName)])
                ELSE Rename(st2, tmpName, SegPath(mergedID)),
         m |-> [old |-> st.segments, mergedID |-> mergedID, tf |-> tf,
                i |-> 1]]])])])])

\* merge, one round of "Lock and close old segments"
mergeCloseOld(st, s) ==
    Let([st1 \in {CloseFd(st, st.heap[s].file)} |-> Unlink(st1, st.heap[s].path)])

\* merge from "Create new merged segment" to the end, deferred Close included
mergeFinish(st, m) ==
    Let([st1 \in {OpenRead(st, SegPath(m.mergedID))} |->
        IF st1.err # "nil" THEN CloseFd(st1, m.tf)
        ELSE
    Let([st2 \in {NewSegment(st1, NewFd(st1), m.mergedID, FileSize(st1, NewFd(st1)),
                   SegPath(m.mergedID))} |->
    Let([st3 \in {[st2 EXCEPT !.segments = <<Len(st2.heap)>>, !.index = EmptyIndex]} |->
        
    Let([st4 \in {scanSegment(st3, st3.segments[1])} |->
    Let([st5 \in {IF st4.err # "nil" THEN st4 ELSE scanSegment(st4, st4.active)} |->
         CloseFd(st5, m.tf)])])])])])

RECURSIVE MergeCloseAll(_, _)
MergeCloseAll(st, ss) ==
    IF ss = <<>> THEN st
    ELSE Let([st1 \in {mergeCloseOld(st, Head(ss))} |->
             MergeCloseAll(st1, Tail(ss))])

\* merge, the test on len(db.segments): is there work to do
MergeHasWorkFromOne(n) == n >= 1
MergeHasWork(n) == ~(n < 2)

\* DB.merge with nothing running in between
merge(st) ==
    IF ~MergeHasWork(Len(st.segments)) THEN st
    ELSE Let([b \in {mergeBegin(st)} |->
             IF b.st.err # "nil" THEN b.st
             ELSE Let([st1 \in {MergeCloseAll(b.st, b.m.old)} |->
                      mergeFinish(st1, b.m)])])

\* the steps of merge at which a system call can fail
MergeFaults == {"create", "copy", "rename", "open", "scan"}

\* DB.merge on two or more frozen segments when the system call at step
\* `at` returns an error; merge returns that error at once, its deferred
\* tf.Close() runs, and nothing is undone
mergeFailing(st, at) ==
    IF at = "create" THEN [st EXCEPT !.err = "io"]
    ELSE IF at = "copy"
    THEN Let([st1 \in {OpenFile(st, tmpName)} |->
         Let([st2 \in {CloseFd(st1, NewFd(st1))} |->
         Let([st3 \in {Rename(st2, tmpName, staleName)} |->
             [st3 EXCEPT !.fds[st.heap[Last(st.segments)].file].pos = 0,
                         !.err = "io"]])])])
    ELSE IF at = "rename"
    THEN Let([st1 \in {OpenFile(st, tmpName)} |->
         Let([st2 \in {MergeCopy(st1, Len(st1.segments), NewFd(st1), {})} |->
         Let([st3 \in {CloseFd(st2, NewFd(st1))} |->
             [Rename(st3, tmpName, staleName) EXCEPT !.err = "io"]])])])
    ELSE Let([b \in {mergeBegin(st)} |->
         Let([st1 \in {MergeCloseAll(b.st, b.m.old)} |->
             IF at = "open" THEN [CloseFd(st1, b.m.tf) EXCEPT !.err = "io"]
             ELSE Let([st2 \in {OpenRead(st1, SegPath(b.m.mergedID))} |->
                  Let([st3 \in {NewSegment(st2, NewFd(st2), b.m.mergedID,
                                 FileSize(st2, NewFd(st2)),
                                 SegPath(b.m.mergedID))} |->
                  Let([st4 \in {CloseFd(st3, b.m.tf)} |->
                      [st4 EXCEPT !.segments = <<Len(st3.heap)>>,
                                  !.index = EmptyIndex, !.err = "io"]])])])])])

(* -------------------------------- Close ------------------------------- *)
RECURSIVE CloseAll(_, _)
CloseAll(st, ss) ==
    IF ss = <<>> THEN st
    ELSE Let([st1 \in {CloseFd(st, st.heap[Head(ss)].file)} |->
             CloseAll(st1, Tail(ss))])

\* DB.Close after db.wg.Wait()
closeFiles(st) ==
    Let([ss \in {st.segments \o <<st.active>>} |-> CloseAll(st, ss)])

(* -------------------------- history operators ------------------------- *)
RECURSIVE Records(_)
\* the records a byte sequence consists of, as far as they decode
Records(bytes) ==
    Let([d \in {DecodeFromReader(bytes)} |->
        IF d.err # "nil" THEN <<>>
        ELSE Let([rest \in {Drop(bytes, d.n)} |->
                 <<[key |-> d.key, value |-> d.value]>> \o Records(rest)])])

\* the records in the file of segment struct s
SegRecords(st, s) == Records(st.files[st.fds[st.heap[s].file].ino])

RECURSIVE AllRecords(_, _)
AllRecords(st, ss) ==
    IF ss = <<>> THEN <<>> ELSE SegRecords(st, Head(ss)) \o AllRecords(st, Tail(ss))

\* the id history after the store went from st to new
IdHistAfter(st, new, by) ==
    IF Len(new.segments) = Len(st.segments) + 1 /\ by = "rotate"
    THEN Append(idHist, [id |-> new.heap[Last(new.segments)].id, by |-> by,
                         clobber |-> SegPath(new.heap[Last(new.segments)].id)
                                        \in DOMAIN st.dir])
    ELSE IF by = "merge" /\ Len(st.segments) >= 2
    THEN Append(idHist, [id |-> MergedID(st), by |-> by,
                         clobber |-> SegPath(MergedID(st)) \in DOMAIN st.dir])
    ELSE idHist

(* -------------------------------- Init -------------------------------- *)
Workers == 1..NumWorkers
\* every worker has a key of its own
WorkerKey(w) == IF w = 1 THEN <<>> ELSE <<w>>
WorkerValue(w) == <<w>>

EmptyStore == [files |-> <<>>, dir |-> [n \in {} |-> 0], fds |-> <<>>,
               heap |-> <<>>, segments |-> <<>>, active |-> 0,
               index |-> EmptyIndex, mss |-> defaultMaxBytes, err |-> "nil"]

NoOp == [op |-> "none", key |-> <<>>, err |-> "nil", value |-> NoValue, n |-> 0]
NoSel == [s |-> 0, offset |-> 0]
NoRes == [err |-> "none", value |-> NoValue]
NoReq == [key |-> <<>>, value |-> <<>>, resp |-> 0, err |-> "nil"]
NoMerge == [old |-> <<>>, mergedID |-> 0, tf |-> 0, i |-> 0]

\* Open on an empty directory
Init ==
    /\ StoreIs(OpenDB(EmptyStore))
    /\ env \in SegMaxValues
    /\ dbState = "open"
    /\ lastOp = NoOp
    /\ writeCh = <<>>
    /\ writerPc = "select"
    /\ writerReq = NoReq
    /\ wpc = [w \in Workers |-> "put"]
    /\ wsel = [w \in Workers |-> NoSel]
    /\ wres = [w \in Workers |-> NoRes]
    /\ mu = "none"
    /\ cpc = "select"
    /\ mrg = NoMerge
    /\ lastPut = [k \in {} |-> <<>>]
    /\ putCount = [k \in {} |-> 0]
    /\ nPuts = 0
    /\ merges = 0
    /\ idHist = <<>>
    /\ mergeIn = <<>>

(* ------------------- the API, one call at a time ---------------------- *)
Written == DOMAIN lastPut
Count(k) == IF k \in DOMAIN putCount THEN putCount[k] ELSE 0

\* history after a successful doPut(key, value) took the store from St to new
PutHistory(new, key, value) ==
    /\ lastPut' = (key :> value) @@ lastPut
    /\ putCount' = (key :> Count(key) + 1) @@ putCount
    /\ idHist' = IdHistAfter(St, new, "rotate")

\* Put: the request goes through writeCh to the writer, which runs doPut
\* and answers on respCh
Put(key, value) ==
    /\ dbState = "open"
    /\ nPuts < MaxPuts
    /\ \E new \in {doPut(St, env, key, value)} :
           /\ Commit(new)
           /\ PutHistory(new, key, value)
    /\ nPuts' = nPuts + 1
    /\ lastOp' = [NoOp EXCEPT !.op = "Put", !.key = key]
    /\ mergeIn' = <<>>
    /\ UNCHANGED <<env, dbState, procVars, merges>>

\* Get; while Close is blocked other threads can still call it
GetCall(key) ==
    /\ dbState \in {"open", "hung"}
    /\ \E r \in {Get(St, key)} :
           lastOp' = [NoOp EXCEPT !.op = "Get", !.key = key, !.err = r.err,
                                  !.value = r.value]
    /\ UNCHANGED <<storeVars, env, dbState, procVars, histVars>>

\* Size
SizeCall ==
    /\ dbState \in {"open", "hung"}
    /\ lastOp' = [NoOp EXCEPT !.op = "Size", !.n = Size(St)]
    /\ UNCHANGED <<storeVars, env, dbState, procVars, histVars>>

\* Merge(), or merge() called by the compactor on a tick
Merge ==
    /\ dbState = "open"
    /\ Len(segments) >= 2 => merges < MaxMerges
    /\ \E new \in {merge(St)} :
           /\ Commit(new)
           /\ idHist' = IdHistAfter(St, new, "merge")
           /\ lastOp' = [NoOp EXCEPT !.op = "Merge", !.err = new.err,
                                     !.n = Len(segments)]
    /\ merges' = IF Len(segments) >= 2 THEN merges + 1 ELSE merges
    /\ mergeIn' = IF Len(segments) >= 2 THEN AllRecords(St, segments) ELSE mergeIn
    /\ UNCHANGED <<env, dbState, procVars, lastPut, putCount, nPuts>>

\* Close when the writer's select takes <-db.quit: the writer returns,
\* wg.Wait() returns and every file is closed
CloseReturns ==
    /\ dbState = "open"
    /\ \E new \in {closeFiles(St)} : Commit(new)
    /\ dbState' = "closed"
    /\ lastOp' = [NoOp EXCEPT !.op = "Close"]
    /\ mergeIn' = <<>>
    /\ UNCHANGED <<env, procVars, lastPut, putCount, nPuts, merges, idHist>>

\* Close when the writer, not parked in its select at the time, finds both
\* channels closed and takes <-db.writeCh: it receives the zero
\* writeRequest, runs doPut("", "") and blocks for ever on the nil respCh,
\* and Close blocks in wg.Wait()
CloseHangs ==
    /\ dbState = "open"
    /\ \E new \in {doPut(St, env, <<>>, <<>>)} :
           /\ Commit(new)
           /\ idHist' = IdHistAfter(St, new, "rotate")
           /\ dbState' = "hung"
    /\ lastOp' = [NoOp EXCEPT !.op = "Close", !.err = "blocked"]
    /\ mergeIn' = <<>>
    /\ UNCHANGED <<env, procVars, lastPut, putCount, nPuts, merges>>

\* Open on the directory of a closed store; SEG_MAX may have been set
\* anew before it (os.Setenv before Open, as the tests do)
Open ==
    /\ dbState = "closed"
    /\ \E new \in {OpenDB(St)} : Commit(new)
    /\ env' \in SegMaxValues
    /\ dbState' = "open"
    /\ lastOp' = [NoOp EXCEPT !.op = "Open"]
    /\ UNCHANGED <<procVars, lastPut, putCount, nPuts, merges, idHist,
                   mergeIn>>

Next ==
    \/ \E k \in Keys, v \in Values : Put(k, v)
    \/ \E k \in Keys : GetCall(k)
    \/ SizeCall
    \/ Merge
    \/ CloseReturns
    \/ CloseHangs
    \/ Open

Spec == Init /\ [][Next]_vars

\* Merge() on two or more frozen segments with an I/O error at step `at`
MergeFails(at) ==
    /\ dbState = "open"
    /\ Len(segments) >= 2
    /\ merges < MaxMerges
    /\ \E new \in {mergeFailing(St, at)} :
           /\ Commit(new)
           /\ idHist' = IF at \in {"open", "scan"}
                         THEN IdHistAfter(St, new, "merge") ELSE idHist
           /\ lastOp' = [NoOp EXCEPT !.op = "Merge", !.err = new.err,
                                     !.n = Len(segments)]
    /\ merges' = merges + 1
    /\ mergeIn' = <<>>
    /\ UNCHANGED <<env, dbState, procVars, lastPut, putCount, nPuts>>

NextFault ==
    \/ \E k \in Keys, v \in Values : Put(k, v)
    \/ \E k \in Keys : GetCall(k)
    \/ Merge
    \/ \E at \in MergeFaults : MergeFails(at)

\* the API of an open store with I/O errors in merge
SpecFault == Init /\ [][NextFault]_vars

(* ------------------------ the codec on its own ------------------------ *)
\* keys and values for entry.Encode, byte by byte
Bytes == {0, 1, 255}
Strings == UNION {[1..n -> Bytes] : n \in 0..MaxLen}
\* and by their length: 0, 1, 2^31, 2^32 - 9, 2^32 - 8, 2^32 - 1, 2^32
BigLens == {Int64(0), Int64(1), [hi |-> 32768, lo |-> 0],
            [hi |-> 65535, lo |-> 65527], [hi |-> 65535, lo |-> 65528],
            [hi |-> 65535, lo |-> 65535], [hi |-> 65536, lo |-> 0]}

\* e := entry{k, v}; data := e.Encode()
CodecEncode(k, v) ==
    /\ lastOp.op = "none"
    /\ lastOp' = [op |-> "Encode", key |-> k, value |-> v,
                  data |-> Encode(k, v)]
    /\ UNCHANGED <<storeVars, env, dbState, procVars, histVars>>

\* e2.Decode(data) and e3.DecodeFromReader(bufio.NewReader(data))
CodecDecode ==
    /\ lastOp.op = "Encode"
    /\ lastOp' = [lastOp EXCEPT !.op = "Decode"]
                    @@ [dec |-> Decode(lastOp.data),
                        rd |-> DecodeFromReader(lastOp.data)]
    /\ UNCHANGED <<storeVars, env, dbState, procVars, histVars>>

\* the same for a key of kl and a value of vl bytes
CodecEncodeLens(kl, vl) ==
    /\ lastOp.op = "none"
    /\ lastOp' = [op |-> "EncodeLens", rec |-> EncodeLens(kl, vl)]
    /\ UNCHANGED <<storeVars, env, dbState, procVars, histVars>>

CodecDecodeLens ==
    /\ lastOp.op = "EncodeLens"
    /\ lastOp' = [lastOp EXCEPT !.op = "DecodeLens"]
                    @@ [dec |-> DecodeLens(lastOp.rec.len, lastOp.rec.kl,
                                           lastOp.rec.vl),
                        rd |-> DecodeFromReaderLens(lastOp.rec.len,
                                                    lastOp.rec.kl,
                                                    lastOp.rec.vl)]
    /\ UNCHANGED <<storeVars, env, dbState, procVars, histVars>>

\* a segment file that holds the first n bytes of the record: what
\* e.DecodeFromReader returns on it, and what the loop of scanSegment
\* returns
CodecScanPrefix(n) ==
    /\ lastOp.op = "Encode"
    /\ n <= Len(lastOp.data)
    /\ \E stream \in {SubSeq(lastOp.data, 1, n)} :
          lastOp' = [lastOp EXCEPT !.op = "ScanPrefix"]
                       @@ [stream |-> stream,
                           rd |-> DecodeFromReader(stream),
                           scan |-> ScanLoop(stream, 0, activeID, EmptyIndex)]
    /\ UNCHANGED <<storeVars, env, dbState, procVars, histVars>>

\* header fields of a buffer that no Encode produced: the uint32 values
\* among BigLens
HeaderLens == {l \in BigLens : l.hi < Half}
\* lengths a buffer is cut to, 8 + 2 * MaxLen meaning not at all
CutLens == {0, 4, 7, 8, 8 + 2 * MaxLen}

\* e.Decode(data) for a buffer made of a header with kl and vl, the bytes
\* of body, cut to at most n bytes
CodecDecodeBuf(kl, vl, body, n) ==
    /\ lastOp.op = "none"
    /\ \E data \in {SubSeq(PutUint32(kl) \o PutUint32(vl) \o body, 1,
                              IF n < 8 + Len(body) THEN n ELSE 8 + Len(body))} :
          lastOp' = [op |-> "DecodeBuf", kl |-> kl, vl |-> vl, data |-> data,
                     dec |-> Decode(data)]
    /\ UNCHANGED <<storeVars, env, dbState, procVars, histVars>>

NextCodec ==
    \/ \E k \in Strings, v \in Strings : CodecEncode(k, v)
    \/ CodecDecode
    \/ \E kl \in HeaderLens, vl \in HeaderLens, body \in Strings, n \in CutLens :
          CodecDecodeBuf(kl, vl, body, n)
    \/ \E n \in 0..(8 + 2 * MaxLen) : CodecScanPrefix(n)
    \/ \E kl \in BigLens, vl \in BigLens : CodecEncodeLens(kl, vl)
    \/ CodecDecodeLens

SpecCodec == Init /\ [][NextCodec]_vars

(* ---------------- the goroutines, one step at a time ------------------ *)
\* Put, up to the send on db.writeCh; the worker then waits on respCh.
\* Callers start a Put only before Close is called (a send on the closed
\* writeCh would panic).
WorkerPutSend(w) ==
    /\ wpc[w] = "put"
    /\ dbState = "open"
    /\ Len(writeCh) < writeChCap
    /\ writeCh' = Append(writeCh, [NoReq EXCEPT !.key = WorkerKey(w),
                                                !.value = WorkerValue(w),
                                                !.resp = w])
    /\ wpc' = [wpc EXCEPT ![w] = "wait"]
    /\ UNCHANGED <<storeVars, env, dbState, lastOp, writerPc, writerReq, wsel,
                   wres, mu, cpc, mrg, histVars>>

\* writer: the select takes a request from db.writeCh and doPut runs under
\* db.mu
WriterDoPut ==
    /\ writerPc = "select"
    /\ writeCh # <<>>
    /\ mu = "none"
    /\ \E req \in {Head(writeCh)} :
       \E new \in {doPut(St, env, req.key, req.value)} :
           /\ Commit(new)
           /\ PutHistory(new, req.key, req.value)
           /\ writerReq' = req
    /\ writeCh' = Tail(writeCh)
    /\ writerPc' = "respond"
    /\ UNCHANGED <<env, dbState, lastOp, wpc, wsel, wres, mu, cpc, mrg, nPuts,
                   merges, mergeIn>>

\* writer: req.respCh <- err, received by the worker that waits in Put
WriterRespond ==
    /\ writerPc = "respond"
    /\ wpc[writerReq.resp] = "wait"
    /\ wpc' = [wpc EXCEPT ![writerReq.resp] = "get"]
    /\ writerPc' = "select"
    /\ writerReq' = NoReq
    /\ UNCHANGED <<storeVars, env, dbState, lastOp, writeCh, wsel, wres, mu,
                   cpc, mrg, histVars>>

\* Get from db.mu.RLock() to db.mu.RUnlock(): the lookup, the segment and
\* its read lock
WorkerGetResolve(w) ==
    /\ wpc[w] = "get"
    /\ mu = "none"
    /\ \E r \in {GetResolve(St, WorkerKey(w))} :
           IF r.done
           THEN /\ wres' = [wres EXCEPT ![w] = [err |-> r.err, value |-> NoValue]]
                /\ wpc' = [wpc EXCEPT ![w] = "done"]
                /\ UNCHANGED <<heap, wsel>>
           ELSE /\ heap' = [heap EXCEPT ![r.s].readers = @ + 1]
                /\ wsel' = [wsel EXCEPT ![w] = [s |-> r.s, offset |-> r.offset]]
                /\ wpc' = [wpc EXCEPT ![w] = "read"]
                /\ UNCHANGED wres
    /\ UNCHANGED <<files, dir, fds, segments, active, index, MaxSegmentSize,
                   env, dbState, lastOp, writeCh, writerPc, writerReq, mu, cpc,
                   mrg, histVars>>

\* Get after db.mu.RUnlock(): the reads, with only s.mu held, then the
\* deferred s.mu.RUnlock()
WorkerGetRead(w) ==
    /\ wpc[w] = "read"
    /\ wres' = [wres EXCEPT ![w] = GetRead(St, wsel[w].s, wsel[w].offset)]
    /\ heap' = [heap EXCEPT ![wsel[w].s].readers = @ - 1]
    /\ wsel' = [wsel EXCEPT ![w] = NoSel]
    /\ wpc' = [wpc EXCEPT ![w] = "done"]
    /\ UNCHANGED <<files, dir, fds, segments, active, index, MaxSegmentSize,
                   env, dbState, lastOp, writeCh, writerPc, writerReq, mu, cpc,
                   mrg, histVars>>

\* compactor: a tick; merge takes db.mu and either returns at once (fewer
\* than two frozen segments) or writes and renames the merged file
MergeBegin ==
    /\ cpc = "select"
    /\ mu = "none"
    /\ merges < MaxMerges
    /\ IF Len(segments) < 2
       THEN UNCHANGED <<storeVars, mu, cpc, mrg, idHist, mergeIn, merges>>
       ELSE \E b \in {mergeBegin(St)} :
                /\ Commit(b.st)
                /\ IF b.st.err # "nil"
                   THEN /\ mrg' = NoMerge
                        /\ mu' = "none"
                        /\ cpc' = "select"
                        /\ idHist' = idHist
                        /\ merges' = merges + 1
                   ELSE /\ mrg' = b.m
                        /\ mu' = "compactor"
                        /\ cpc' = "closeOld"
                        /\ idHist' = IdHistAfter(St, b.st, "merge")
                        /\ merges' = merges
                /\ mergeIn' = AllRecords(St, segments)
    /\ UNCHANGED <<env, dbState, lastOp, writeCh, writerPc, writerReq, wpc,
                   wsel, wres, lastPut, putCount, nPuts>>

\* compactor: s.mu.Lock() on the next old segment, which waits for the
\* readers of that struct, then Close, Remove, Unlock
MergeCloseOld ==
    /\ cpc = "closeOld"
    /\ mrg.i <= Len(mrg.old)
    /\ heap[mrg.old[mrg.i]].readers = 0
    /\ \E new \in {mergeCloseOld(St, mrg.old[mrg.i])} : Commit(new)
    /\ mrg' = [mrg EXCEPT !.i = @ + 1]
    /\ UNCHANGED <<env, dbState, lastOp, writeCh, writerPc, writerReq, wpc,
                   wsel, wres, mu, cpc, histVars>>

\* compactor: the merged segment replaces the list, the index is rebuilt,
\* db.mu is released
MergeFinish ==
    /\ cpc = "closeOld"
    /\ mrg.i > Len(mrg.old)
    /\ \E new \in {mergeFinish(St, mrg)} : Commit(new)
    /\ mrg' = NoMerge
    /\ mu' = "none"
    /\ cpc' = "select"
    /\ merges' = merges + 1
    /\ UNCHANGED <<env, dbState, lastOp, writeCh, writerPc, writerReq, wpc,
                   wsel, wres, lastPut, putCount, nPuts, idHist,
                   mergeIn>>

\* Close, its first two statements: close(db.quit); close(db.writeCh).
\* Close then blocks in db.wg.Wait(), which counts the writer only.
CloseSignal ==
    /\ dbState = "open"
    /\ dbState' = "closing"
    /\ UNCHANGED <<storeVars, env, lastOp, procVars, histVars>>

\* writer: the select takes <-db.quit and the goroutine returns; the
\* requests still in writeCh are never received
WriterQuit ==
    /\ writerPc = "select"
    /\ dbState = "closing"
    /\ writerPc' = "returned"
    /\ UNCHANGED <<storeVars, env, dbState, lastOp, writeCh, writerReq, wpc,
                   wsel, wres, mu, cpc, mrg, histVars>>

\* writer: the select takes <-db.writeCh on the closed and drained channel,
\* receives the zero writeRequest, runs doPut("", "") and blocks for ever in
\* the send on the nil respCh
WriterZero ==
    /\ writerPc = "select"
    /\ dbState = "closing"
    /\ writeCh = <<>>
    /\ mu = "none"
    /\ \E new \in {doPut(St, env, <<>>, <<>>)} :
           /\ Commit(new)
           /\ idHist' = IdHistAfter(St, new, "rotate")
    /\ writerPc' = "stuck"
    /\ UNCHANGED <<env, dbState, lastOp, writeCh, writerReq, wpc, wsel, wres,
                   mu, cpc, mrg, lastPut, putCount, nPuts, merges, mergeIn>>

\* Close after db.wg.Wait() returned: the loop that closes the files of
\* append(db.segments, db.active); Close takes no lock
CloseFilesConc ==
    /\ dbState = "closing"
    /\ writerPc = "returned"
    /\ \E new \in {closeFiles(St)} : Commit(new)
    /\ dbState' = "closed"
    /\ UNCHANGED <<env, lastOp, procVars, histVars>>

\* compactor: the select takes <-db.quit; with a tick pending as well the
\* select may take the tick instead (MergeBegin)
CompactorQuit ==
    /\ cpc = "select"
    /\ dbState \in {"closing", "closed"}
    /\ cpc' = "returned"
    /\ UNCHANGED <<storeVars, env, dbState, lastOp, writeCh, writerPc,
                   writerReq, wpc, wsel, wres, mu, mrg, histVars>>

WriterStep == WriterDoPut \/ WriterRespond \/ WriterQuit \/ WriterZero
WorkerStep(w) == WorkerPutSend(w) \/ WorkerGetResolve(w) \/ WorkerGetRead(w)
CompactorStep == MergeBegin \/ MergeCloseOld \/ MergeFinish \/ CompactorQuit

NextConc ==
    \/ \E w \in Workers : WorkerPutSend(w)
    \/ WriterDoPut
    \/ WriterRespond
    \/ \E w \in Workers : WorkerGetResolve(w)
    \/ \E w \in Workers : WorkerGetRead(w)
    \/ MergeBegin
    \/ MergeCloseOld
    \/ MergeFinish
    \/ CloseSignal
    \/ WriterQuit
    \/ WriterZero
    \/ CloseFilesConc
    \/ CompactorQuit

SpecConc == Init /\ [][NextConc]_vars

\* The Go scheduler runs every runnable goroutine: weak fairness for the
\* writer, every worker, the compactor and the tail of Close.  Calling
\* Close at all is the caller's choice.
SpecConcFair ==
    /\ SpecConc
    /\ WF_vars(WriterStep)
    /\ \A w \in Workers : WF_vars(WorkerStep(w))
    /\ WF_vars(CompactorStep)
    /\ WF_vars(CloseFilesConc)

(* ------------------- the goroutines, lock by lock --------------------- *)
\* The steps of the goroutines cut at every Lock and RLock, on a store that
\* is never closed.  db.mu is held exclusively by the compactor while
\* mu = "compactor" and by the writer inside its doPut step; a goroutine at
\* "lock" has called db.mu.Lock() and waits, and a waiting Lock keeps new
\* RLock calls out (sync.RWMutex).

\* worker w holds db.mu in shared mode: Get between RLock and RUnlock,
\* Size for its whole body; Put takes no lock
HoldsCoreSharedInPut(w) == wpc[w] \in {"wait", "rlocked", "sizing"}
HoldsCoreShared(w) == wpc[w] \in {"rlocked", "sizing"}

\* db.mu.Lock() can return
CoreFree == mu = "none" /\ \A w \in Workers : ~HoldsCoreShared(w)
\* db.mu.RLock() can return: no holder and no waiter in exclusive mode
CoreRLockFree == mu = "none" /\ writerPc # "lock" /\ cpc # "lock"
\* s.mu.RLock() can return: merge is not at s.mu.Lock() of this struct
SegRLockFree(s) ==
    ~(cpc = "closeOld" /\ mrg.i <= Len(mrg.old) /\ mrg.old[mrg.i] = s)

\* writer: the select takes a request from db.writeCh; doPut is called and
\* is at db.mu.Lock()
WriterReceive ==
    /\ writerPc = "select"
    /\ writeCh # <<>>
    /\ writerReq' = Head(writeCh)
    /\ writeCh' = Tail(writeCh)
    /\ writerPc' = "lock"
    /\ UNCHANGED <<storeVars, env, dbState, lastOp, wpc, wsel, wres, mu, cpc,
                   mrg, histVars>>

\* writer: doPut from db.mu.Lock() to the deferred db.mu.Unlock()
WriterLocked ==
    /\ writerPc = "lock"
    /\ CoreFree
    /\ \E new \in {doPut(St, env, writerReq.key, writerReq.value)} :
           /\ Commit(new)
           /\ PutHistory(new, writerReq.key, writerReq.value)
    /\ writerPc' = "respond"
    /\ UNCHANGED <<env, dbState, lastOp, writeCh, writerReq, wpc, wsel, wres,
                   mu, cpc, mrg, nPuts, merges, mergeIn>>

\* Get: db.mu.RLock()
GetRLock(w) ==
    /\ wpc[w] = "get"
    /\ CoreRLockFree
    /\ wpc' = [wpc EXCEPT ![w] = "rlocked"]
    /\ UNCHANGED <<storeVars, env, dbState, lastOp, writeCh, writerPc,
                   writerReq, wsel, wres, mu, cpc, mrg, histVars>>

\* Get: the lookup under db.mu, then s.mu.RLock() and db.mu.RUnlock(), or
\* db.mu.RUnlock() and an error
GetSegRLock(w) ==
    /\ wpc[w] = "rlocked"
    /\ \E r \in {GetResolve(St, WorkerKey(w))} :
           IF r.done
           THEN /\ wres' = [wres EXCEPT ![w] = [err |-> r.err, value |-> NoValue]]
                /\ wpc' = [wpc EXCEPT ![w] = "done"]
                /\ UNCHANGED <<heap, wsel>>
           ELSE /\ SegRLockFree(r.s)
                /\ heap' = [heap EXCEPT ![r.s].readers = @ + 1]
                /\ wsel' = [wsel EXCEPT ![w] = [s |-> r.s, offset |-> r.offset]]
                /\ wpc' = [wpc EXCEPT ![w] = "read"]
                /\ UNCHANGED wres
    /\ UNCHANGED <<files, dir, fds, segments, active, index, MaxSegmentSize,
                   env, dbState, lastOp, writeCh, writerPc, writerReq, mu, cpc,
                   mrg, histVars>>

\* Size: db.mu.RLock()
SizeRLock(w) ==
    /\ wpc[w] = "done"
    /\ CoreRLockFree
    /\ wpc' = [wpc EXCEPT ![w] = "sizing"]
    /\ UNCHANGED <<storeVars, env, dbState, lastOp, writeCh, writerPc,
                   writerReq, wsel, wres, mu, cpc, mrg, histVars>>

\* Size: the sum and the deferred db.mu.RUnlock()
SizeReturn(w) ==
    /\ wpc[w] = "sizing"
    /\ wpc' = [wpc EXCEPT ![w] = "finished"]
    /\ lastOp' = [NoOp EXCEPT !.op = "Size", !.n = Size(St)]
    /\ UNCHANGED <<storeVars, env, dbState, writeCh, writerPc, writerReq, wsel,
                   wres, mu, cpc, mrg, histVars>>

\* compactor: a tick; merge is called and is at db.mu.Lock()
MergeWant ==
    /\ cpc = "select"
    /\ merges < MaxMerges
    /\ cpc' = "lock"
    /\ UNCHANGED <<storeVars, env, dbState, lastOp, writeCh, writerPc,
                   writerReq, wpc, wsel, wres, mu, mrg, histVars>>

\* compactor: merge from db.mu.Lock(): it returns at once (fewer than two
\* frozen segments, or an error) or goes on to the old segments' locks
MergeLocked ==
    /\ cpc = "lock"
    /\ CoreFree
    /\ IF Len(segments) < 2
       THEN /\ cpc' = "select"
            /\ UNCHANGED <<storeVars, mu, mrg, idHist, mergeIn, merges>>
       ELSE \E b \in {mergeBegin(St)} :
                /\ Commit(b.st)
                /\ IF b.st.err # "nil"
                   THEN /\ mrg' = NoMerge
                        /\ mu' = "none"
                        /\ cpc' = "select"
                        /\ idHist' = idHist
                        /\ merges' = merges + 1
                   ELSE /\ mrg' = b.m
                        /\ mu' = "compactor"
                        /\ cpc' = "closeOld"
                        /\ idHist' = IdHistAfter(St, b.st, "merge")
                        /\ merges' = merges
                /\ mergeIn' = AllRecords(St, segments)
    /\ UNCHANGED <<env, dbState, lastOp, writeCh, writerPc, writerReq, wpc,
                   wsel, wres, lastPut, putCount, nPuts>>

WriterLockStep == WriterReceive \/ WriterLocked \/ WriterRespond
WorkerLockStep(w) ==
    \/ WorkerPutSend(w)
    \/ GetRLock(w)
    \/ GetSegRLock(w)
    \/ WorkerGetRead(w)
    \/ SizeRLock(w)
    \/ SizeReturn(w)
CompactorLockStep == MergeWant \/ MergeLocked \/ MergeCloseOld \/ MergeFinish

NextLock ==
    \/ \E w \in Workers : WorkerPutSend(w)
    \/ WriterReceive
    \/ WriterLocked
    \/ WriterRespond
    \/ \E w \in Workers : GetRLock(w)
    \/ \E w \in Workers : GetSegRLock(w)
    \/ \E w \in Workers : WorkerGetRead(w)
    \/ \E w \in Workers : SizeRLock(w)
    \/ \E w \in Workers : SizeReturn(w)
    \/ MergeWant
    \/ MergeLocked
    \/ MergeCloseOld
    \/ MergeFinish

\* The Go scheduler runs every runnable goroutine (weak fairness for the
\* writer and the compactor), and sync.RWMutex admits a blocked RLock
\* when the exclusive holder unlocks, before the next Lock (strong fairness
\* for the workers, whose RLock is enabled between two Locks only).
SpecLock ==
    /\ Init
    /\ [][NextLock]_vars
    /\ WF_vars(WriterLockStep)
    /\ \A w \in Workers : SF_vars(WorkerLockStep(w))
    /\ WF_vars(CompactorLockStep)

(* ------------------------------ properties ---------------------------- *)
Ok(v) == [err |-> "nil", value |-> v]
ReadsLastPut(st) == \A k \in Written : Get(st, k) = Ok(lastPut[k])
FrozenIds(st) == {st.heap[st.segments[i]].id : i \in 1..Len(st.segments)}
SegFiles(st) == {n \in DOMAIN st.dir : n >= 0}
KeysOf(recs) == {recs[i].key : i \in 1..Len(recs)}
\* the value of the last record for k in recs
Newest(recs, k) ==
    recs[MaxOf({i \in 1..Len(recs) : recs[i].key = k})].value
MergeDone == lastOp.op = "Merge" /\ lastOp.err = "nil" /\ lastOp.n >= 2

RECURSIVE SumLatest(_)
\* sum over the keys in S of 8 + |k| + |latest v|
SumLatest(S) ==
    IF S = {} THEN 0
    ELSE LET k == CHOOSE x \in S : TRUE
         IN  8 + Len(k) + Len(lastPut[k]) + SumLatest(S \ {k})

\* C1: while the store is open, Get(k) returns the value of the last
\* successful Put(k, _) for every written key, whatever Puts, rotations,
\* merges and reopens happened since.
C1_ReadYourWrites == dbState = "open" => ReadsLastPut(St)

\* C2: right after Open on a directory written by Puts and the rotations
\* they triggered (no compaction), Get returns for every written key the
\* value of its last successful Put.
C2_RecoveryReturnsLastPut ==
    (lastOp.op = "Open" /\ merges = 0) => ReadsLastPut(St)

\* C2 witness: a reopened store in which a key has an older record with
\* another value in a frozen segment and its latest record in the active one
C2_Witness ==
    /\ lastOp.op = "Open"
    /\ merges = 0
    /\ \E k \in Written :
          /\ Count(k) >= 2
          /\ index[k].segID = activeID
          /\ \E i \in 1..Len(segments) :
                /\ k \in KeysOf(SegRecords(St, segments[i]))
                /\ Newest(SegRecords(St, segments[i]), k) # lastPut[k]

\* C3: when every key was Put at most once, every written key reads its
\* value right after a successful Merge, also the keys whose record is in
\* the active segment.
C3_MergePreservesReads ==
    (lastOp.op = "Merge" /\ lastOp.err = "nil"
        /\ \A k \in Written : Count(k) = 1) => ReadsLastPut(St)

\* C4: after a merge of two or more frozen segments the merged segment
\* holds exactly one record per key of the inputs, with the value of the
\* newest input record of that key.
C4_MergedKeepsNewest ==
    MergeDone =>
        /\ Len(segments) = 1
        /\ LET out == SegRecords(St, segments[1])
           IN  /\ KeysOf(out) = KeysOf(mergeIn)
               /\ Len(out) = Cardinality(KeysOf(mergeIn))
               /\ \A i \in 1..Len(out) :
                     out[i].value = Newest(mergeIn, out[i].key)

\* C5: after a merge of two or more frozen segments one frozen segment is
\* left, in db.segments and in the directory, no temporary file is left,
\* and a reopen of the directory returns every key's last Put value.
C5_OneSegmentAfterMerge ==
    MergeDone =>
        /\ Len(segments) = 1
        /\ SegFiles(St) = FrozenIds(St)
        /\ Cardinality(SegFiles(St)) = 1
        /\ tmpName \notin DOMAIN dir
        /\ ReadsLastPut(OpenDB(closeFiles(St)))

\* C6: on a store that was not closed, every worker that has finished its
\* Put and its Get of its own key got its own value back.
C6_WorkersReadOwnValue ==
    dbState = "open" =>
        \A w \in Workers : wpc[w] = "done" => wres[w] = Ok(WorkerValue(w))

\* C7: on a store that was not closed, while a Get is between resolving its
\* segment and finishing its reads, the file of the segment struct it
\* resolved is open.
C7_ReaderFileStaysOpen ==
    dbState = "open" =>
        \A w \in Workers :
            wpc[w] = "read" => ~fds[heap[wsel[w].s].file].closed

\* C8: Get of a key that was never the key of a successful Put returns
\* NotFound, in every state in which Get can be called.
C8_NeverWrittenNotFound ==
    dbState \in {"open", "hung"} =>
        \A k \in Keys \ Written : Get(St, k).err = "NotFound"

\* C9: the id a rotation assigns is greater than every id assigned before
\* it, by rotations or merges, also across Close and Open, and no rename
\* of a rotation or a merge lands on the name of an existing file.
C9_IdsIncrease ==
    /\ \A j \in 1..Len(idHist) : ~idHist[j].clobber
    /\ \A i, j \in 1..Len(idHist) :
          (i < j /\ idHist[j].by = "rotate") => idHist[i].id < idHist[j].id

\* C9 witness: the id after the one of a merge is assigned by a rotation
C9_Witness ==
    \E i, j \in 1..Len(idHist) :
        /\ j = i + 1
        /\ idHist[i].by = "merge"
        /\ idHist[j].by = "rotate"

\* C10: Size() is at least the sum over the written keys of
\* 8 + |k| + |latest v|.
C10_SizeAtLeastLatest == dbState = "open" => Size(St) >= SumLatest(Written)

\* C11: a Put that is queued or in flight when Close is called eventually
\* returns to its caller.
C11_PutsReturnOnClose ==
    \A w \in Workers :
        (dbState = "closing" /\ wpc[w] = "wait") ~> (wpc[w] # "wait")

\* C12: Close closes no file while a merge is between taking and releasing
\* db.mu, and once Close has closed db.quit no merge of the compactor
\* starts work on the files.
C12_CloseWaitsForMerge ==
    [][ /\ CloseFilesConc => mu # "compactor"
        /\ (MergeBegin /\ Len(segments) >= 2) => dbState = "open" ]_vars

\* the files of the frozen segments are in the directory, unchanged
InputsKept ==
    \A i \in 1..Len(segments) :
        LET path == heap[segments[i]].path
        IN  /\ path \in DOMAIN dir /\ path \in DOMAIN dir'
            /\ dir'[path] = dir[path]
            /\ files'[dir[path]] = files[dir[path]]

\* C13: a merge that returns an error leaves the frozen list, the index,
\* the active segment and the input segment files as they were, and every
\* Get returns what it returned before the call.
C13_FailedMergeChangesNothing ==
    [][ (lastOp'.op = "Merge" /\ lastOp'.err # "nil") =>
            /\ segments' = segments
            /\ index' = index
            /\ active' = active
            /\ InputsKept
            /\ \A k \in Keys : Get(St, k)' = Get(St, k) ]_vars

\* the codec on lengths computes what the codec on bytes computes
CodecLensAgree ==
    lastOp.op = "Decode" =>
        LET l == EncodeLens(Int64(Len(lastOp.key)), Int64(Len(lastOp.value)))
            d == DecodeLens(l.len, l.kl, l.vl)
            r == DecodeFromReaderLens(l.len, l.kl, l.vl)
            Cut(sl) == SubSeq(lastOp.data, ToInt(sl.from) + 1, ToInt(sl.to))
        IN  /\ Len(lastOp.data) = ToInt(l.len)
            /\ lastOp.dec = [err |-> d.err, key |-> Cut(d.key),
                             value |-> Cut(d.value)]
            /\ lastOp.rd = [err |-> r.err, n |-> ToInt(r.n),
                            key |-> Cut(r.key), value |-> Cut(r.value)]

\* C14: for every key and value, Decode and DecodeFromReader of the
\* encoding yield the key and the value, and DecodeFromReader reports
\* 8 + |k| + |v| bytes, the length of the encoding.
C14_CodecRoundTrip ==
    /\ lastOp.op = "Decode" =>
          /\ lastOp.dec = [err |-> "nil", key |-> lastOp.key,
                           value |-> lastOp.value]
          /\ lastOp.rd = [err |-> "nil",
                          n |-> 8 + Len(lastOp.key) + Len(lastOp.value),
                          key |-> lastOp.key, value |-> lastOp.value]
          /\ lastOp.rd.n = Len(lastOp.data)
    /\ lastOp.op = "DecodeLens" =>
          /\ lastOp.dec = [err |-> "nil", key |-> lastOp.rec.key,
                           value |-> lastOp.rec.value]
          /\ lastOp.rd = [err |-> "nil", n |-> lastOp.rec.len,
                          key |-> lastOp.rec.key, value |-> lastOp.rec.value]

\* C14 on the keys and values enumerated byte by byte only
CodecRoundTripBytes ==
    lastOp.op = "Decode" =>
        /\ lastOp.dec = [err |-> "nil", key |-> lastOp.key,
                         value |-> lastOp.value]
        /\ lastOp.rd = [err |-> "nil", n |-> Len(lastOp.data),
                        key |-> lastOp.key, value |-> lastOp.value]

\* the segment struct a position refers to; 0 when there is none
SegOf(st, pos) ==
    IF pos.segID = activeID THEN st.active
    ELSE IF segIdx(st, pos.segID) = 0 THEN 0
    ELSE st.segments[segIdx(st, pos.segID)]

\* the file of segment struct s is open and is the file its path names
FileThere(st, s) ==
    LET seg == st.heap[s]
    IN  /\ ~st.fds[seg.file].closed
        /\ seg.path \in DOMAIN st.dir
        /\ st.dir[seg.path] = st.fds[seg.file].ino

\* a complete record with key k starts at offset in the file of s
RecordAt(st, s, offset, k) ==
    LET bytes == st.files[st.fds[st.heap[s].file].ino]
        d == DecodeFromReader(Drop(bytes, offset))
    IN  offset <= Len(bytes) /\ d.err = "nil" /\ d.key = k

IndexValid(st) ==
    \A k \in DOMAIN st.index :
        LET pos == st.index[k]
            s == SegOf(st, pos)
        IN  /\ s # 0
            /\ FileThere(st, s)
            /\ RecordAt(st, s, pos.offset, k)

\* C15: between the operations on an open store, every index entry for a
\* key k refers to the active segment or to a frozen segment of the list
\* whose file is open and in the directory, and a complete record with
\* key k starts at its offset in that file.
C15_IndexValid == dbState \in {"open", "hung"} => IndexValid(St)

\* C15 witness: after rotations, a merge and a later Put the index has an
\* entry in the merged segment and an entry in the active segment
C15_Witness ==
    /\ dbState = "open"
    /\ merges > 0
    /\ Len(idHist) >= 3
    /\ \E k1, k2 \in DOMAIN index :
          /\ index[k1].segID = activeID
          /\ index[k2].segID = heap[segments[1]].id

\* the threshold the next doPut compares with
Threshold == IF env > 0 THEN env ELSE MaxSegmentSize
\* the active segment is at or over the threshold
OverThreshold == heap[active].size >= Threshold
\* this step is a Put call
PutStep == lastOp'.op = "Put" /\ nPuts' = nPuts + 1
\* the size of the active segment after the append of this Put
SizeAfterAppend ==
    heap[active].size + 8 + Len(lastOp'.key) + Len(lastPut'[lastOp'.key])

\* C16: a Put rotates exactly when the active size after its append is at
\* or over the threshold in effect; after every Put the active segment is
\* below the threshold; an active segment at or over the threshold arises
\* only from Open, which does not rotate.
C16_RotationThreshold ==
    [][ /\ PutStep =>
              /\ (Len(segments') = Len(segments) + 1)
                    <=> (SizeAfterAppend >= Threshold)
              /\ Len(segments') \in {Len(segments), Len(segments) + 1}
              /\ ~OverThreshold'
        /\ (~OverThreshold /\ OverThreshold') => lastOp'.op = "Open"
        /\ lastOp'.op = "Open" => Len(segments') = Cardinality(SegFiles(St))
      ]_vars

\* C16 witness: Open has inherited an active segment at or over the
\* threshold now in effect and has not rotated it
C16_Witness ==
    /\ lastOp.op = "Open"
    /\ dbState = "open"
    /\ OverThreshold
    /\ Len(segments) = 0

\* this step is a Put call whose doPut rotated
RotatingPut == PutStep /\ Len(segments') = Len(segments) + 1

\* C17: after a Put that brought the active segment to or over the
\* threshold, its record is in the newly frozen segment at the offset it
\* was appended at, the key is indexed at (new frozen id, that offset),
\* and the new active segment is an empty file of size 0.
C17_WriteThenRotate ==
    [][ RotatingPut =>
          LET k == lastOp'.key
              frozen == Last(segments')
              offset == heap[active].size
              bytes == files'[fds'[heap'[frozen].file].ino]
              d == DecodeFromReader(Drop(bytes, offset))
          IN  /\ index'[k] = [segID |-> heap'[frozen].id, offset |-> offset]
              /\ heap'[frozen].id >= 0
              /\ dir'[heap'[frozen].path] = fds'[heap'[frozen].file].ino
              /\ d.err = "nil" /\ d.key = k /\ d.value = lastPut'[k]
              /\ offset + d.n = Len(bytes)
              /\ heap'[frozen].size = Len(bytes)
              /\ heap'[active'].size = 0
              /\ heap'[active'].id = activeID
              /\ files'[fds'[heap'[active'].file].ino] = <<>>
              /\ dir'[activeName] = fds'[heap'[active'].file].ino
      ]_vars

\* C17 witness: the state after a Put that rotated a segment in which its
\* record was not the first one
C17_Witness ==
    /\ lastOp.op = "Put"
    /\ Len(segments) >= 1
    /\ heap[active].size = 0
    /\ lastOp.key \in DOMAIN index
    /\ index[lastOp.key].segID = heap[Last(segments)].id
    /\ index[lastOp.key].offset > 0

\* this step ran doPut and doPut rotated
RotationStep ==
    /\ Len(segments') = Len(segments) + 1
    /\ PutStep \/ lastOp'.op = "Close"
\* the key doPut wrote in this step
StepKey == IF lastOp'.op = "Put" THEN lastOp'.key ELSE <<>>
\* the index as doPut left it when it called rotateActive
IndexBeforeRotation ==
    (StepKey :> [segID |-> activeID, offset |-> heap[active].size]) @@ index

\* C18: a rotation rewrites every index entry that points at the active
\* segment to the new frozen id at the same offset, leaves the entries
\* that point at frozen segments as they are, adds and removes no key,
\* and leaves no entry that points at the active segment.
C18_RotationRewritesIndex ==
    [][ RotationStep =>
          LET pre == IndexBeforeRotation
              newID == heap'[Last(segments')].id
          IN  /\ DOMAIN index' = DOMAIN pre
              /\ \A k \in DOMAIN pre :
                    IF pre[k].segID = activeID
                    THEN index'[k] = [segID |-> newID,
                                      offset |-> pre[k].offset]
                    ELSE index'[k] = pre[k]
              /\ \A k \in DOMAIN index' : index'[k].segID # activeID
      ]_vars

\* C18 witness: the state after a rotating Put in which two keys were
\* rewritten to the new frozen segment and a third key stayed in an older
\* frozen segment
C18_Witness ==
    /\ lastOp.op = "Put"
    /\ heap[active].size = 0
    /\ Len(segments) >= 2
    /\ \E k1, k2, k3 \in DOMAIN index :
          /\ k1 # k2
          /\ index[k1].segID = heap[Last(segments)].id
          /\ index[k2].segID = heap[Last(segments)].id
          /\ index[k3].segID = heap[segments[1]].id
          /\ heap[segments[1]].id # heap[Last(segments)].id

\* worker w is in Get between db.mu.RUnlock() and the end of its reads,
\* holding the read lock of the active segment's struct only
ReadsActive(w) == wpc[w] = "read" /\ wsel[w].s = active

\* C19: the writer appends to the active segment's file only while no Get
\* is in its positional reads of that file.
C19_NoAppendDuringRead ==
    [][ (WriterDoPut \/ WriterZero) => \A w \in Workers : ~ReadsActive(w) ]_vars

\* C20: Merge on a store with fewer than two frozen segments returns nil
\* and leaves the frozen list, the index, the active segment, the
\* directory and the files as they are; no temporary file is created.
C20_MergeWithoutWork ==
    [][ (lastOp'.op = "Merge" /\ Len(segments) < 2) =>
          /\ lastOp'.err = "nil"
          /\ UNCHANGED storeVars
          /\ tmpName \notin DOMAIN dir'
          /\ staleName \notin DOMAIN dir'
      ]_vars

\* C20 witness: the state after Merge on a store with one frozen segment
\* and a record in the active segment
C20_Witness ==
    /\ lastOp.op = "Merge"
    /\ lastOp.n = 1
    /\ Len(segments) = 1
    /\ heap[active].size > 0
    /\ \E k \in DOMAIN index : index[k].segID = activeID

\* C21: DecodeFromReader reports io.EOF only on a stream with no bytes
\* left; on a truncated record (1 to 7 header bytes, or a whole header and
\* fewer body bytes than the header announces, none included) it reports
\* another error and the scan of the segment fails.
C21_EOFOnlyAtBoundary ==
    lastOp.op = "ScanPrefix" =>
        /\ lastOp.rd.err = "EOF" <=> Len(lastOp.stream) = 0
        /\ (0 < Len(lastOp.stream) /\ Len(lastOp.stream) < Len(lastOp.data)) =>
              /\ lastOp.rd.err \notin {"nil", "EOF"}
              /\ lastOp.scan.err # "nil"

\* the buffer is shorter than 8 bytes or than 8 + kl + vl, the sum taken
\* in the integers
ShortBuffer(data, kl, vl) ==
    \/ Len(data) < 8
    \/ LtInt(Int64(Len(data)), AddInt(AddInt(Int64(8), kl), vl))

\* C22: Decode returns an error on every buffer shorter than 8 bytes or
\* than 8 + key_len + value_len, also when that sum is above 2^32 - 1, and
\* otherwise returns the key_len bytes after the header as the key and the
\* value_len bytes after them as the value; it never panics on a slice out
\* of bounds.
C22_DecodeLengthCheck ==
    lastOp.op = "DecodeBuf" =>
        IF ShortBuffer(lastOp.data, lastOp.kl, lastOp.vl)
        THEN lastOp.dec.err = "short"
        ELSE lastOp.dec =
                [err |-> "nil",
                 key |-> SubSeq(lastOp.data, 9, 8 + ToInt(lastOp.kl)),
                 value |-> SubSeq(lastOp.data, 9 + ToInt(lastOp.kl),
                                  8 + ToInt(lastOp.kl) + ToInt(lastOp.vl))]

\* C23: once Close has closed quit and writeCh, the writer goroutine
\* exits and Close returns, whether the writer was idle or executing a Put.
C23_CloseTerminates ==
    (dbState = "closing") ~> (writerPc = "returned" /\ dbState = "closed")

\* the steps of Close and of the writer's answer to the closed channels
CloseStep == CloseSignal \/ WriterQuit \/ WriterZero \/ CloseFilesConc

\* C24: Close appends no record to any segment and changes neither the
\* index nor a segment's size: no record is written for a request that no
\* caller submitted.
C24_CloseWritesNothing ==
    [][ CloseStep =>
          /\ files' = files
          /\ dir' = dir
          /\ index' = index
          /\ \A s \in DOMAIN heap : heap'[s].size = heap[s].size ]_vars

\* C25: on a store that is never closed no goroutine waits for ever: every
\* worker's Put, Get and Size return, every doPut of the writer and every
\* merge of the compactor comes to its end.
C25_NoDeadlock ==
    /\ \A w \in Workers : <>(wpc[w] = "finished")
    /\ (writerPc # "select") ~> (writerPc = "select")
    /\ (cpc # "select") ~> (cpc = "select")

\* C25 witness: merge holds db.mu and waits at s.mu.Lock() for a Get that
\* reads the segment, while the writer waits at db.mu.Lock() and another
\* worker waits in Put
C25_Witness ==
    /\ cpc = "closeOld"
    /\ mrg.i <= Len(mrg.old)
    /\ heap[mrg.old[mrg.i]].readers > 0
    /\ writerPc = "lock"
    /\ \E w \in Workers : wpc[w] = "wait"

====
